---------------------------- MODULE Spec2Model ----------------------------
(***************************************************************************)
(* A model of the weather application's service layer and request          *)
(* handlers: the date-range validator (app/services/validators.py), the    *)
(* geocoding resolver (app/services/geo.py), the weather fetchers and the   *)
(* date-range fetch and merge engine (app/services/weather.py).            *)
(*                                                                         *)
(* Python values are represented as follows.                               *)
(*   Optional[T]   None is <<>>, a value v is <<v>>.                        *)
(*   str           a sequence of one-character strings.                    *)
(*   date          a record [year, month, day].                            *)
(*   dict          a record.                                               *)
(*   float         temperatures are tenths of a degree Celsius (integers); *)
(*                 converted values are exact fractions [num, den].        *)
(***************************************************************************)
EXTENDS Integers, Sequences, FiniteSets, TLC

(***************************************************************************)
(* Optional values                                                         *)
(***************************************************************************)
None == <<>>

Some(v) == <<v>>

IsNone(o) == o = <<>>

Val(o) == o[1]

(***************************************************************************)
(* Characters and decimal numerals                                         *)
(***************************************************************************)
Digits == <<"0", "1", "2", "3", "4", "5", "6", "7", "8", "9">>

IsDigit(c) == \E i \in 1..10 : Digits[i] = c

DigitVal(c) == (CHOOSE i \in 1..10 : Digits[i] = c) - 1

DigitChar(n) == Digits[n + 1]

RECURSIVE NumVal(_)
NumVal(s) == IF s = <<>> THEN 0
             ELSE 10 * NumVal(SubSeq(s, 1, Len(s) - 1)) + DigitVal(s[Len(s)])

AllDigits(s) == \A i \in 1..Len(s) : IsDigit(s[i])

Pad2(n) == <<DigitChar((n \div 10) % 10), DigitChar(n % 10)>>

Pad4(n) == <<DigitChar((n \div 1000) % 10), DigitChar((n \div 100) % 10)>> \o Pad2(n)

(***************************************************************************)
(* datetime.date: the proleptic Gregorian calendar                         *)
(***************************************************************************)
IsLeap(y) == (y % 4 = 0) /\ ((y % 100 # 0) \/ (y % 400 = 0))

DaysInMonth(y, m) ==
    IF m = 2 THEN (IF IsLeap(y) THEN 29 ELSE 28)
    ELSE IF m \in {4, 6, 9, 11} THEN 30 ELSE 31

Date(y, m, d) == [year |-> y, month |-> m, day |-> d]

RECURSIVE DaysBeforeMonth(_, _)
DaysBeforeMonth(y, m) ==
    IF m = 1 THEN 0 ELSE DaysBeforeMonth(y, m - 1) + DaysInMonth(y, m - 1)

DaysBeforeYear(y) ==
    (y - 1) * 365 + ((y - 1) \div 4) - ((y - 1) \div 100) + ((y - 1) \div 400)

\* date.toordinal()
ToOrdinal(d) == DaysBeforeYear(d.year) + DaysBeforeMonth(d.year, d.month) + d.day

\* start > end on dates
DateGT(a, b) ==
    \/ a.year > b.year
    \/ a.year = b.year /\ a.month > b.month
    \/ a.year = b.year /\ a.month = b.month /\ a.day > b.day

DateLT(a, b) == DateGT(b, a)

\* (end - start).days
DaysBetween(start, end) == ToOrdinal(end) - ToOrdinal(start)

NextDay(d) ==
    IF d.day < DaysInMonth(d.year, d.month) THEN Date(d.year, d.month, d.day + 1)
    ELSE IF d.month < 12 THEN Date(d.year, d.month + 1, 1)
    ELSE Date(d.year + 1, 1, 1)

PrevDay(d) ==
    IF d.day > 1 THEN Date(d.year, d.month, d.day - 1)
    ELSE IF d.month > 1 THEN Date(d.year, d.month - 1, DaysInMonth(d.year, d.month - 1))
    ELSE Date(d.year - 1, 12, 31)

RECURSIVE AddDays(_, _)
AddDays(d, k) ==
    IF k = 0 THEN d
    ELSE IF k > 0 THEN AddDays(NextDay(d), k - 1)
    ELSE AddDays(PrevDay(d), k + 1)

\* date.isoformat()
isoformat(d) == Pad4(d.year) \o <<"-">> \o Pad2(d.month) \o <<"-">> \o Pad2(d.day)

(***************************************************************************)
(* validators.py                                                           *)
(***************************************************************************)
\* The month directive %m of strptime: 1[0-2] | 0[1-9] | [1-9]
MonthToken(t) ==
    \/ Len(t) = 2 /\ t[1] = "1" /\ t[2] \in {"0", "1", "2"}
    \/ Len(t) = 2 /\ t[1] = "0" /\ IsDigit(t[2]) /\ t[2] # "0"
    \/ Len(t) = 1 /\ IsDigit(t[1]) /\ t[1] # "0"

\* The day directive %d of strptime: 3[01] | [12]\d | 0[1-9] | [1-9] | " "[1-9]
DayToken(t) ==
    \/ Len(t) = 2 /\ t[1] = "3" /\ t[2] \in {"0", "1"}
    \/ Len(t) = 2 /\ t[1] \in {"1", "2"} /\ IsDigit(t[2])
    \/ Len(t) = 2 /\ t[1] \in {"0", " "} /\ IsDigit(t[2]) /\ t[2] # "0"
    \/ Len(t) = 1 /\ IsDigit(t[1]) /\ t[1] # "0"

TokenVal(t) == IF t[1] = " " THEN NumVal(Tail(t)) ELSE NumVal(t)

\* datetime.strptime(s, "%Y-%m-%d").date(), None standing for ValueError
Strptime(s) ==
    LET n == Len(s)
        dash2 == IF n >= 7 /\ s[7] = "-" THEN 7
                 ELSE IF n >= 8 /\ s[8] = "-" THEN 8 ELSE 0
    IN  IF n < 8 \/ dash2 = 0 THEN None
        ELSE LET yt == SubSeq(s, 1, 4)
                 mt == SubSeq(s, 6, dash2 - 1)
                 dt == SubSeq(s, dash2 + 1, n)
             IN  IF ~(AllDigits(yt) /\ s[5] = "-" /\ MonthToken(mt) /\ DayToken(dt))
                 THEN None
                 ELSE LET y == NumVal(yt)
                          m == NumVal(mt)
                          d == TokenVal(dt)
                      IN  IF y >= 1 /\ d <= DaysInMonth(y, m)
                          THEN Some(Date(y, m, d))
                          ELSE None

\* "not d" of an Optional[str]
Falsy(t) == IsNone(t) \/ Val(t) = <<>>

_parse_iso(d) == IF Falsy(d) THEN None ELSE Strptime(Val(d))

DateRange(start, end) == [start |-> start, end |-> end]

Return(v) == [kind |-> "return", value |-> v]

Raise(exc, msg) == [kind |-> "raise", exc |-> exc, msg |-> msg]

MsgFormat == "Dates must be in YYYY-MM-DD format."

MsgOrder == "Start date must be on or before end date."

MsgTooLarge(span, max_days) ==
    "Date range too large (" \o ToString(span) \o " days). Max "
        \o ToString(max_days) \o " days."

DefaultMaxDays == 31

\* validate_date_range with the span compared by >= : a span of exactly
\* max_days is refused
validate_date_range_ge(start_s, end_s, max_days) ==
    IF Falsy(start_s) /\ Falsy(end_s) THEN Return(None)
    ELSE LET start == _parse_iso(start_s)
             end == _parse_iso(end_s)
         IN  IF IsNone(start) \/ IsNone(end) THEN Raise("ValueError", MsgFormat)
             ELSE IF DateGT(Val(start), Val(end)) THEN Raise("ValueError", MsgOrder)
             ELSE LET span == DaysBetween(Val(start), Val(end)) + 1
                  IN  IF span >= max_days
                      THEN Raise("ValueError", MsgTooLarge(span, max_days))
                      ELSE Return(Some(DateRange(Val(start), Val(end))))

\* validate_date_range with the order checked after the span: a reversed
\* range is never reported as such, its span being negative
validate_date_range_noorder(start_s, end_s, max_days) ==
    IF Falsy(start_s) /\ Falsy(end_s) THEN Return(None)
    ELSE LET start == _parse_iso(start_s)
             end == _parse_iso(end_s)
         IN  IF IsNone(start) \/ IsNone(end) THEN Raise("ValueError", MsgFormat)
             ELSE LET span == DaysBetween(Val(start), Val(end)) + 1
                  IN  IF span > max_days
                      THEN Raise("ValueError", MsgTooLarge(span, max_days))
                      ELSE Return(Some(DateRange(Val(start), Val(end))))

validate_date_range(start_s, end_s, max_days) ==
    IF Falsy(start_s) /\ Falsy(end_s) THEN Return(None)
    ELSE LET start == _parse_iso(start_s)
             end == _parse_iso(end_s)
         IN  IF IsNone(start) \/ IsNone(end) THEN Raise("ValueError", MsgFormat)
             ELSE IF DateGT(Val(start), Val(end)) THEN Raise("ValueError", MsgOrder)
             ELSE LET span == DaysBetween(Val(start), Val(end)) + 1
                  IN  IF span > max_days
                      THEN Raise("ValueError", MsgTooLarge(span, max_days))
                      ELSE Return(Some(DateRange(Val(start), Val(end))))

(***************************************************************************)
(* geo.py                                                                  *)
(*                                                                         *)
(* A float parsed from text is held exactly, in units of 1/10000; the      *)
(* texts of the model carry at most four decimals.                         *)
(***************************************************************************)
Char(s, i) == IF i >= 1 /\ i <= Len(s) THEN s[i] ELSE ""

\* \s* : the index of the first character at or after i that is not a blank
RECURSIVE SkipSpaces(_, _)
SkipSpaces(s, i) == IF Char(s, i) = " " THEN SkipSpaces(s, i + 1) ELSE i

\* \d* : the index after the run of digits starting at i
RECURSIVE SkipDigits(_, _)
SkipDigits(s, i) == IF Char(s, i) # "" /\ IsDigit(s[i]) THEN SkipDigits(s, i + 1) ELSE i

\* -?\d+(?:\.\d+)? at i: the index after the match, 0 when there is none
ScanNum(s, i) ==
    LET a == IF Char(s, i) = "-" THEN i + 1 ELSE i
        b == SkipDigits(s, a)
        c == IF Char(s, b) = "." THEN SkipDigits(s, b + 1) ELSE b
    IN  IF b = a THEN 0
        ELSE IF Char(s, b) = "." /\ c > b + 1 THEN c ELSE b

\* LATLON_RE.match(q): the two groups, or None
\*   ^\s*(-?\d+(?:\.\d+)?)\s*[, ]\s*(-?\d+(?:\.\d+)?)\s*$
LATLON_RE_match(q) ==
    LET i1 == SkipSpaces(q, 1)
        e1 == ScanNum(q, i1)
        j == SkipSpaces(q, e1)
        i2 == IF Char(q, j) = "," THEN SkipSpaces(q, j + 1)
              ELSE IF j > e1 THEN j ELSE 0
        e2 == IF i2 = 0 THEN 0 ELSE ScanNum(q, i2)
    IN  IF e1 = 0 \/ e2 = 0 \/ SkipSpaces(q, e2) # Len(q) + 1 THEN None
        ELSE Some(<<SubSeq(q, i1, e1 - 1), SubSeq(q, i2, e2 - 1)>>)

\* 10^k
RECURSIVE Pow10(_)
Pow10(k) == IF k = 0 THEN 1 ELSE 10 * Pow10(k - 1)

\* float(t) of a numeral t, in units of 1/10000; None standing for ValueError
\* and TypeError
float(t) ==
    IF ScanNum(t, 1) # Len(t) + 1 \/ Len(t) = 0 THEN None
    ELSE LET a == IF t[1] = "-" THEN 2 ELSE 1
             b == SkipDigits(t, a)
             ip == SubSeq(t, a, b - 1)
             fp == IF b <= Len(t) THEN SubSeq(t, b + 1, Len(t)) ELSE <<>>
             f4 == IF Len(fp) <= 4 THEN NumVal(fp) * Pow10(4 - Len(fp))
                   ELSE NumVal(SubSeq(fp, 1, 4))
             mag == NumVal(ip) * 10000 + f4
         IN  Some(IF t[1] = "-" THEN 0 - mag ELSE mag)

RECURSIVE Numeral(_)
Numeral(n) == IF n < 10 THEN <<DigitChar(n)>>
              ELSE Numeral(n \div 10) \o <<DigitChar(n % 10)>>

\* f"{x:.4f}"
Format4f(x) ==
    LET mag == IF x < 0 THEN 0 - x ELSE x
    IN  (IF x < 0 THEN <<"-">> ELSE <<>>) \o Numeral(mag \div 10000) \o <<".">>
            \o Pad4(mag % 10000)

_try_parse_latlon(q) ==
    LET m == LATLON_RE_match(q)
    IN  IF IsNone(m) THEN None
        ELSE LET lat == float(Val(m)[1])
                 lon == float(Val(m)[2])
             IN  IF IsNone(lat) \/ IsNone(lon) THEN None
                 ELSE Some([name |-> Format4f(Val(lat)) \o <<",">> \o Format4f(Val(lon)),
                            lat |-> lat, lon |-> lon])

(***************************************************************************)
(* An upstream HTTP exchange, as the client sees it:                       *)
(*   [kind |-> "transport"]  client.get raised (no connection, timeout)    *)
(*   [kind |-> "status"]     raise_for_status raised (a non-2xx response)  *)
(*   [kind |-> "badjson"]    r.json() raised                               *)
(*   [kind |-> "json", data |-> J]                                         *)
(* and a JSON value J is                                                   *)
(*   [type |-> "list", items |-> <<...>>]                                  *)
(*   [type |-> "dict", keys |-> {...}, ...one field per modelled key...]   *)
(*   [type |-> "str"]        any other JSON value                          *)
(***************************************************************************)
Transport == [kind |-> "transport"]

BadStatus == [kind |-> "status"]

BadJson == [kind |-> "badjson"]

Json(data) == [kind |-> "json", data |-> data]

JList(items) == [type |-> "list", items |-> items]

JScalar == [type |-> "str"]

\* the try/except around the request: the exchange raised
ExchangeFailed(resp) == resp.kind # "json"

\* "not data" of a JSON value
JFalsy(j) ==
    \/ j.type = "list" /\ j.items = <<>>
    \/ j.type = "dict" /\ "keys" \in DOMAIN j /\ j.keys = {}

\* ", ".join(parts)
RECURSIVE JoinComma(_)
JoinComma(parts) ==
    IF parts = <<>> THEN <<>>
    ELSE IF Len(parts) = 1 THEN parts[1]
    ELSE parts[1] \o <<",", " ">> \o JoinComma(Tail(parts))

\* [p for p in parts if p]
RECURSIVE Truthy(_)
Truthy(parts) ==
    IF parts = <<>> THEN <<>>
    ELSE (IF Falsy(parts[1]) THEN <<>> ELSE <<Val(parts[1])>>) \o Truthy(Tail(parts))

\* the source tags of the two providers
SourceOpenMeteo == "open-meteo"

SourceNominatim == "nominatim"

\* _geocode_open_meteo, given the exchange with the primary geocoder
\* _geocode_open_meteo without its try/except: a failed exchange raises
_geocode_open_meteo_raising(query, resp) ==
    IF ExchangeFailed(resp) THEN Raise("HTTPError", resp.kind)
    ELSE LET data == resp.data
         IN  IF data.type # "dict" THEN Raise("AttributeError", "get")
             ELSE LET results == IF "results" \in data.keys /\ ~IsNone(data.results)
                                 THEN Val(data.results) ELSE JList(<<>>)
                  IN  IF JFalsy(results) THEN Return(None)
                      ELSE IF results.type # "list" THEN Raise("KeyError", "0")
                      ELSE LET top == results.items[1]
                           IN  IF top.type # "dict" THEN Raise("AttributeError", "get")
                               ELSE Return(Some(
                                   [name |-> JoinComma(Truthy(<<top.name>>
                                        \o (IF Falsy(top.admin1) THEN <<>> ELSE <<top.admin1>>)
                                        \o (IF Falsy(top.country) THEN <<>> ELSE <<top.country>>))),
                                    lat |-> top.latitude,
                                    lon |-> top.longitude,
                                    country_code |-> top.country_code,
                                    source |-> SourceOpenMeteo]))

_geocode_open_meteo(query, resp) ==
    IF ExchangeFailed(resp) THEN Return(None)
    ELSE LET data == resp.data
         IN  IF data.type # "dict" THEN Raise("AttributeError", "get")
             ELSE LET results == IF "results" \in data.keys /\ ~IsNone(data.results)
                                 THEN Val(data.results) ELSE JList(<<>>)
                  IN  IF JFalsy(results) THEN Return(None)
                      ELSE IF results.type # "list" THEN Raise("KeyError", "0")
                      ELSE LET top == results.items[1]
                           IN  IF top.type # "dict" THEN Raise("AttributeError", "get")
                               ELSE Return(Some(
                                   [name |-> JoinComma(Truthy(<<top.name>>
                                        \o (IF Falsy(top.admin1) THEN <<>> ELSE <<top.admin1>>)
                                        \o (IF Falsy(top.country) THEN <<>> ELSE <<top.country>>))),
                                    lat |-> top.latitude,
                                    lon |-> top.longitude,
                                    country_code |-> top.country_code,
                                    source |-> SourceOpenMeteo]))

\* _geocode_nominatim naming the primary geocoder as its source
_geocode_nominatim_mistagged(query, resp) ==
    IF ExchangeFailed(resp) THEN Return(None)
    ELSE LET data == resp.data
         IN  IF JFalsy(data) THEN Return(None)
             ELSE IF data.type = "dict" THEN Raise("KeyError", "0")
             ELSE IF data.type # "list" THEN Raise("AttributeError", "get")
             ELSE LET top == data.items[1]
                  IN  IF top.type # "dict" THEN Raise("AttributeError", "get")
                      ELSE LET display_name == IF Falsy(top.display_name) THEN query
                                               ELSE Val(top.display_name)
                               lat == IF IsNone(top.lat) THEN None ELSE float(Val(top.lat))
                               lon == IF IsNone(top.lon) THEN None ELSE float(Val(top.lon))
                           IN  IF IsNone(lat) \/ IsNone(lon) THEN Return(None)
                               ELSE Return(Some(
                                   [name |-> display_name,
                                    lat |-> lat,
                                    lon |-> lon,
                                    country_code |-> None,
                                    source |-> SourceOpenMeteo]))

\* _geocode_nominatim, given the exchange with the fallback geocoder
_geocode_nominatim(query, resp) ==
    IF ExchangeFailed(resp) THEN Return(None)
    ELSE LET data == resp.data
         IN  IF JFalsy(data) THEN Return(None)
             ELSE IF data.type = "dict" THEN Raise("KeyError", "0")
             ELSE IF data.type # "list" THEN Raise("AttributeError", "get")
             ELSE LET top == data.items[1]
                  IN  IF top.type # "dict" THEN Raise("AttributeError", "get")
                      ELSE LET display_name == IF Falsy(top.display_name) THEN query
                                               ELSE Val(top.display_name)
                               lat == IF IsNone(top.lat) THEN None ELSE float(Val(top.lat))
                               lon == IF IsNone(top.lon) THEN None ELSE float(Val(top.lon))
                           IN  IF IsNone(lat) \/ IsNone(lon) THEN Return(None)
                               ELSE Return(Some(
                                   [name |-> display_name,
                                    lat |-> lat,
                                    lon |-> lon,
                                    country_code |-> None,
                                    source |-> SourceNominatim]))

(***************************************************************************)
(* weather.py                                                              *)
(***************************************************************************)
WEATHER_CODE_DESC ==
    (0 :> "Clear sky") @@ (1 :> "Mainly clear") @@ (2 :> "Partly cloudy")
    @@ (3 :> "Overcast") @@ (45 :> "Fog") @@ (48 :> "Depositing rime fog")
    @@ (51 :> "Light drizzle") @@ (53 :> "Moderate drizzle") @@ (55 :> "Dense drizzle")
    @@ (61 :> "Slight rain") @@ (63 :> "Moderate rain") @@ (65 :> "Heavy rain")
    @@ (71 :> "Slight snow") @@ (73 :> "Moderate snow") @@ (75 :> "Heavy snow")
    @@ (80 :> "Rain showers") @@ (81 :> "Moderate rain showers")
    @@ (82 :> "Violent rain showers") @@ (95 :> "Thunderstorm")
    @@ (96 :> "Thunderstorm w/ slight hail") @@ (99 :> "Thunderstorm w/ heavy hail")

\* str(code) inside an f-string
PyStr(code) == IF IsNone(code) THEN "None" ELSE ToString(Val(code))

\* WEATHER_CODE_DESC.get(code, f"Code {code}")
DescGet(code) ==
    IF ~IsNone(code) /\ Val(code) \in DOMAIN WEATHER_CODE_DESC
    THEN WEATHER_CODE_DESC[Val(code)]
    ELSE "Code " \o PyStr(code)

\* the em-dash placeholder, the one-character string U+2014
EmDash == "[em-dash]"

\* c * 9 / 5 + 32, with c in tenths of a degree: the exact fraction (9c + 1600)/50
_c_to_f(c) == IF IsNone(c) THEN None ELSE Some([num |-> 9 * Val(c) + 1600, den |-> 50])

\* mm / 25.4, with mm in tenths of a millimetre: the exact fraction mm/254
_mm_to_in(mm) == IF IsNone(mm) THEN None ELSE Some([num |-> Val(mm), den |-> 254])

\* d.get(key) or {} / or [] of a dict section held as an Optional
OrEmptyList(o) == IF IsNone(o) THEN <<>> ELSE Val(o)

\* xs[i] if i < len(xs) else None (i counts from 1 here)
At(xs, i) == IF i <= Len(xs) THEN xs[i] ELSE None

Min(a, b) == IF a < b THEN a ELSE b

\* the loop of get_forecast_5d running over every upstream date
ForecastRows_untruncated(daily, limit) ==
    LET times == OrEmptyList(daily.time)
        tmax == OrEmptyList(daily.temperature_2m_max)
        tmin == OrEmptyList(daily.temperature_2m_min)
        precip == OrEmptyList(daily.precipitation_sum)
        codes == OrEmptyList(daily.weather_code)
        n == Len(times)
    IN  IF n = 0 THEN <<>>
        ELSE [i \in 1..n |->
                LET code == At(codes, i)
                    desc == IF ~IsNone(code) THEN DescGet(code) ELSE EmDash
                    tmax_c == At(tmax, i)
                    tmin_c == At(tmin, i)
                    prec_mm == At(precip, i)
                IN  [date |-> times[i],
                     tmax_c |-> tmax_c,
                     tmax_f |-> _c_to_f(tmax_c),
                     tmin_c |-> tmin_c,
                     tmin_f |-> _c_to_f(tmin_c),
                     precip_mm |-> prec_mm,
                     precip_in |-> _mm_to_in(prec_mm),
                     weather_code |-> code,
                     weather_desc |-> desc]]

\* the loop of get_forecast_5d: for i in range(min(5, len(times)))
ForecastRows(daily, limit) ==
    LET times == OrEmptyList(daily.time)
        tmax == OrEmptyList(daily.temperature_2m_max)
        tmin == OrEmptyList(daily.temperature_2m_min)
        precip == OrEmptyList(daily.precipitation_sum)
        codes == OrEmptyList(daily.weather_code)
        n == Min(limit, Len(times))
    IN  IF n = 0 THEN <<>>
        ELSE [i \in 1..n |->
                LET code == At(codes, i)
                    desc == IF ~IsNone(code) THEN DescGet(code) ELSE EmDash
                    tmax_c == At(tmax, i)
                    tmin_c == At(tmin, i)
                    prec_mm == At(precip, i)
                IN  [date |-> times[i],
                     tmax_c |-> tmax_c,
                     tmax_f |-> _c_to_f(tmax_c),
                     tmin_c |-> tmin_c,
                     tmin_f |-> _c_to_f(tmin_c),
                     precip_mm |-> prec_mm,
                     precip_in |-> _mm_to_in(prec_mm),
                     weather_code |-> code,
                     weather_desc |-> desc]]

\* the loop of _daily_rows_from_open_meteo describing a missing code as
\* get_current_weather does
RangeRows_code_none(daily) ==
    LET times == OrEmptyList(daily.time)
        tmax == OrEmptyList(daily.temperature_2m_max)
        tmin == OrEmptyList(daily.temperature_2m_min)
        precip == OrEmptyList(daily.precipitation_sum)
        codes == OrEmptyList(daily.weather_code)
        n == Len(times)
    IN  IF n = 0 THEN <<>>
        ELSE [i \in 1..n |->
                LET code == At(codes, i)
                    desc == DescGet(code)
                    tmax_c == At(tmax, i)
                    tmin_c == At(tmin, i)
                    prec_mm == At(precip, i)
                IN  [date |-> times[i],
                     tmax_c |-> tmax_c, tmax_f |-> _c_to_f(tmax_c),
                     tmin_c |-> tmin_c, tmin_f |-> _c_to_f(tmin_c),
                     precip_mm |-> prec_mm, precip_in |-> _mm_to_in(prec_mm),
                     weather_code |-> code, weather_desc |-> desc]]

\* the loop of _daily_rows_from_open_meteo: for i in range(len(times))
RangeRows(daily) ==
    LET times == OrEmptyList(daily.time)
        tmax == OrEmptyList(daily.temperature_2m_max)
        tmin == OrEmptyList(daily.temperature_2m_min)
        precip == OrEmptyList(daily.precipitation_sum)
        codes == OrEmptyList(daily.weather_code)
        n == Len(times)
    IN  IF n = 0 THEN <<>>
        ELSE [i \in 1..n |->
                LET code == At(codes, i)
                    desc == IF ~IsNone(code) THEN DescGet(code) ELSE EmDash
                    tmax_c == At(tmax, i)
                    tmin_c == At(tmin, i)
                    prec_mm == At(precip, i)
                IN  [date |-> times[i],
                     tmax_c |-> tmax_c, tmax_f |-> _c_to_f(tmax_c),
                     tmin_c |-> tmin_c, tmin_f |-> _c_to_f(tmin_c),
                     precip_mm |-> prec_mm, precip_in |-> _mm_to_in(prec_mm),
                     weather_code |-> code, weather_desc |-> desc]]

EmptySection ==
    [type |-> "dict", time |-> None, temperature_2m_max |-> None,
     temperature_2m_min |-> None, precipitation_sum |-> None, weather_code |-> None]

EmptyCurrent ==
    [type |-> "dict", temperature_2m |-> None, apparent_temperature |-> None,
     precipitation |-> None, weather_code |-> None, wind_speed_10m |-> None]

\* data.get(key) or {} : the section of a response body, {} when missing or falsy
Section(data, key, empty) ==
    IF key \notin data.keys \/ IsNone(data[key]) \/ JFalsy(Val(data[key])) THEN empty
    ELSE Val(data[key])

\* get_current_weather, given the exchange with the forecast endpoint
get_current_weather(resp) ==
    IF ExchangeFailed(resp) THEN Return(None)
    ELSE IF resp.data.type # "dict" THEN Raise("AttributeError", "get")
    ELSE LET cur == Section(resp.data, "current", EmptyCurrent)
         IN  IF cur.type # "dict" THEN Raise("AttributeError", "get")
             ELSE LET code == cur.weather_code
                      temp_c == cur.temperature_2m
                      feels_c == cur.apparent_temperature
                  IN  Return(Some(
                        [temperature_c |-> temp_c, temperature_f |-> _c_to_f(temp_c),
                         apparent_c |-> feels_c, apparent_f |-> _c_to_f(feels_c),
                         wind_speed |-> cur.wind_speed_10m,
                         precipitation |-> cur.precipitation,
                         weather_code |-> code, weather_desc |-> DescGet(code)]))

ForecastDays == 5

\* get_forecast_5d, given the exchange with the forecast endpoint
get_forecast_5d(resp) ==
    IF ExchangeFailed(resp) THEN Return(None)
    ELSE IF resp.data.type # "dict" THEN Raise("AttributeError", "get")
    ELSE LET daily == Section(resp.data, "daily", EmptySection)
         IN  IF daily.type # "dict" THEN Raise("AttributeError", "get")
             ELSE Return(Some(ForecastRows(daily, ForecastDays)))

\* _daily_rows_from_open_meteo, given the exchange with the endpoint
_daily_rows_from_open_meteo(resp) ==
    IF ExchangeFailed(resp) THEN Return(None)
    ELSE IF resp.data.type # "dict" THEN Raise("AttributeError", "get")
    ELSE LET daily == Section(resp.data, "daily", EmptySection)
         IN  IF daily.type # "dict" THEN Raise("AttributeError", "get")
             ELSE Return(Some(RangeRows(daily)))

(***************************************************************************)
(* The upstream services: what each may answer to a request                *)
(***************************************************************************)
\* how many days around BaseDate the clock and the requested dates range over
Near == 1

BaseDate == Date(2024, 3, 1)

URL_FORECAST == "https://api.open-meteo.com/v1/forecast"

URL_ARCHIVE == "https://archive-api.open-meteo.com/v1/era5"

URL_GEOCODING == "https://geocoding-api.open-meteo.com/v1/search"

URL_NOMINATIM == "https://nominatim.openstreetmap.org/search"

\* the dates first..last, as ISO texts
RECURSIVE IsoDates(_, _)
IsoDates(first, last) ==
    IF DateGT(first, last) THEN <<>>
    ELSE <<isoformat(first)>> \o IsoDates(NextDay(first), last)

\* the values a source reports for the k-th day of 1..n: they differ by source
\* and by day, and cover a known code, an unknown code and a null code
CodeOf(url, k) ==
    LET c == (k + (IF url = URL_ARCHIVE THEN 0 ELSE 1)) % 4
    IN  IF c = 0 THEN Some(0) ELSE IF c = 1 THEN Some(63)
        ELSE IF c = 2 THEN Some(9999) ELSE None

TmaxOf(url, k) == Some(100 + 15 * (k % 3) + (IF url = URL_ARCHIVE THEN 0 ELSE 7))

TminOf(url, k) == IF k % 5 = 4 THEN None ELSE Some(15 * (k % 3) - 20)

PrecipOf(url, k) == Some(254 * (k % 2) + (IF url = URL_ARCHIVE THEN 0 ELSE 3))

\* the value array of one field for n days
Column(field, url, n) ==
    IF n = 0 THEN <<>>
    ELSE [k \in 1..n |->
            IF field = "temperature_2m_max" THEN TmaxOf(url, k)
            ELSE IF field = "temperature_2m_min" THEN TminOf(url, k)
            ELSE IF field = "precipitation_sum" THEN PrecipOf(url, k)
            ELSE CodeOf(url, k)]

\* a "daily" section for the dates asked: one entry per date, ascending
\* ("full"), or with value arrays shorter than the date array ("ragged")
DailySection(url, times, shape) ==
    LET n == Len(times)
        short == IF n = 0 THEN 0 ELSE n - 1
    IN  [type |-> "dict",
         time |-> Some(times),
         temperature_2m_max |-> Some(Column("temperature_2m_max", url, IF shape = "ragged" THEN short ELSE n)),
         temperature_2m_min |-> IF shape = "ragged" THEN None ELSE Some(Column("temperature_2m_min", url, n)),
         precipitation_sum |-> Some(Column("precipitation_sum", url, n)),
         weather_code |-> Some(Column("weather_code", url, IF shape = "ragged" THEN short ELSE n))]

DailyBody(section) == [type |-> "dict", keys |-> {"daily"}, daily |-> Some(section)]

EmptyBody == [type |-> "dict", keys |-> {}]

\* The answers to a daily request for [start_date, end_date]
DailyResponses(url, start_date, end_date) ==
    LET first == Strptime(start_date)
        last == Strptime(end_date)
        times == IsoDates(Val(first), Val(last))
    IN  {Transport, BadStatus, BadJson, Json(JList(<<>>)), Json(EmptyBody)}
        \cup {Json(DailyBody(DailySection(url, times, shape))) : shape \in {"full", "ragged"}}

\* the answers whose body carries one record per date asked, in ascending order
WellFormed(url, start_date, end_date) ==
    Json(DailyBody(DailySection(url,
        IsoDates(Val(Strptime(start_date)), Val(Strptime(end_date))), "full")))

\* The answers to the 5-day forecast request: k dates from today on
Forecast5dResponses(today) ==
    {Transport, BadStatus, BadJson, Json(JList(<<>>)), Json(EmptyBody)}
    \cup {Json(DailyBody(DailySection(URL_FORECAST, IsoDates(today, AddDays(today, k - 1)), shape))) :
            k \in {ForecastDays - 1, ForecastDays, ForecastDays + 1}, shape \in {"full", "ragged"}}

CurrentBody(code, temp) ==
    [type |-> "dict", keys |-> {"current"},
     current |-> Some([type |-> "dict", temperature_2m |-> temp,
                       apparent_temperature |-> temp, precipitation |-> Some(0),
                       weather_code |-> code, wind_speed_10m |-> Some(35)])]

\* The answers to the current-conditions request
CurrentResponses ==
    {Transport, BadStatus, BadJson, Json(JList(<<>>)), Json(EmptyBody)}
    \cup {Json(CurrentBody(code, temp)) :
            code \in {Some(0), Some(95), Some(9999), None}, temp \in {Some(215), None}}

\* a hit of the primary geocoder
PrimaryTop(admin1, country, latitude) ==
    [type |-> "dict", name |-> Some(<<"P", "a", "r", "i", "s">>), admin1 |-> admin1,
     country |-> country, latitude |-> latitude, longitude |-> Some(23522),
     country_code |-> Some(<<"F", "R">>)]

ResultsBody(results) == [type |-> "dict", keys |-> {"results"}, results |-> results]

\* The answers of the primary geocoder
PrimaryResponses ==
    {Transport, BadStatus, BadJson, Json(JList(<<>>)), Json(EmptyBody),
     Json(ResultsBody(None)), Json(ResultsBody(Some(JList(<<>>)))),
     Json(ResultsBody(Some(JList(<<JScalar>>))))}
    \cup {Json(ResultsBody(Some(JList(<<PrimaryTop(a, c, lat)>>)))) :
            a \in {None, Some(<<"I", "D", "F">>)},
            c \in {None, Some(<<"F", "R", "A">>)},
            lat \in {None, Some(488566)}}

\* a hit of the fallback geocoder
FallbackTop(display_name, lat) ==
    [type |-> "dict", display_name |-> display_name, lat |-> lat,
     lon |-> Some(<<"2", ".", "3", "5">>)]

\* The answers of the fallback geocoder
FallbackResponses ==
    {Transport, BadStatus, BadJson, Json(JList(<<>>)), Json(EmptyBody),
     Json([type |-> "dict", keys |-> {"error"}]), Json(JList(<<JScalar>>))}
    \cup {Json(JList(<<FallbackTop(n, lat)>>)) :
            n \in {None, Some(<<"P", "a", "r", "i", "s", ",", " ", "F", "R">>)},
            lat \in {None, Some(<<"n", "/", "a">>), Some(<<"4", "8", ".", "8", "5", "6", "6">>)}}

(***************************************************************************)
(* The inputs                                                              *)
(***************************************************************************)
\* the values of date.today()
TodaySet == {AddDays(BaseDate, k) : k \in (0 - Near)..Near}

Far == DefaultMaxDays + Near

\* the dates callers ask about: around today, and a month before
InputDates ==
    {AddDays(BaseDate, k) : k \in ((0 - Near - 2)..(Near + 2)) \cup {0 - Far, 1 - Far}}

\* texts that are no ISO date, and one that strptime accepts unpadded
OddTexts ==
    {<<"a", "b", "c">>,
     <<"2", "0", "2", "4", "-", "0", "2", "-", "3", "0">>,
     <<"2", "0", "2", "3", "-", "0", "2", "-", "2", "9">>,
     <<"2", "0", "2", "4", "/", "0", "3", "/", "0", "1">>,
     <<"2", "0", "2", "4", "-", "0", "3", "-", "0", "1", " ">>,
     <<"2", "0", "2", "4", "-", "3", "-", "1">>}

\* the start and end form fields
DateTexts ==
    {None, Some(<<>>)} \cup {Some(isoformat(d)) : d \in InputDates}
        \cup {Some(t) : t \in OddTexts}

MaxDaysSet == {1, Near + 2, DefaultMaxDays}

\* the DateRange values: start <= end and a span within DefaultMaxDays
ValidRanges ==
    {dr \in [start : InputDates, end : InputDates] :
        /\ ~DateGT(dr.start, dr.end)
        /\ DaysBetween(dr.start, dr.end) + 1 <= DefaultMaxDays}

\* the location queries
Queries ==
    {<<"4", "0", ".", "7", "1", "2", "8", ",", " ", "-", "7", "4", ".", "0", "0", "6", "0">>,
     <<" ", "1", "2", " ", " ", "-", "3", "4", ".", "5", " ">>,
     <<"1", "2", ",">>,
     <<"1", "2", ".", ",", "5">>,
     <<"P", "a", "r", "i", "s">>,
     <<>>}

\* the coordinates of a direct call of a fetcher
TestLat == Some(488566)

TestLon == Some(23522)

(***************************************************************************)
(* The state                                                               *)
(*   stack   the coroutines in progress, the running one first; a frame    *)
(*           holds the function, its position and its locals               *)
(*   call    the outermost call: the function and its arguments            *)
(*   result  its outcome, Return(v) or Raise(exc, msg); Pending before     *)
(*   net     the upstream exchanges of the outermost call, in order        *)
(*   clock   the date the system clock shows: what date.today() returns    *)
(*   db      the database: the rows of searchquery and of weathersnapshot  *)
(***************************************************************************)
VARIABLES stack, call, result, net, clock, db

vars == <<stack, call, result, net, clock, db>>

Pending == [kind |-> "pending"]

NoCall == [fn |-> "none"]

\* no call is in progress and the last outcome was delivered
Idle == stack = <<>> /\ call = NoCall

\* the outermost call has ended and its outcome is still held
Ended == stack = <<>> /\ call # NoCall

Running(fn, pc) == stack # <<>> /\ Head(stack).fn = fn /\ Head(stack).pc = pc

Top == Head(stack)

Exchange(url, params, resp) == [url |-> url, params |-> params, resp |-> resp]

\* the running coroutine moves on
Goto(frame) == stack' = <<frame>> \o Tail(stack) /\ UNCHANGED <<call, result, clock>>

\* the running coroutine ends with an outcome: a value goes to the awaiting
\* caller's ret, an exception unwinds every frame (no frame catches one
\* raised by an awaited call)
Finish(outcome) ==
    /\ UNCHANGED <<call, clock>>
    /\ IF Tail(stack) = <<>> \/ outcome.kind = "raise"
       THEN stack' = <<>> /\ result' = outcome
       ELSE /\ stack' = <<[stack[2] EXCEPT !.ret = outcome.value]>> \o Tail(Tail(stack))
            /\ UNCHANGED result

Init ==
    /\ stack = <<>>
    /\ call = NoCall
    /\ result = Pending
    /\ net = <<>>
    /\ clock \in TodaySet
    /\ db = [queries |-> {}, snapshots |-> {}]

(***************************************************************************)
(* The upstream answers a call observes. A fetcher or geocoder called on   *)
(* its own is given every answer of its upstream; under a request handler  *)
(* each upstream gives one failure and its well-formed answers.            *)
(***************************************************************************)
HandlerNames == {"search", "result", "update"}

Answers(all, few) == IF call.fn \in HandlerNames THEN all \cap few ELSE all

PrimaryFound(latitude) ==
    Json(ResultsBody(Some(JList(<<PrimaryTop(Some(<<"I", "D", "F">>),
                                             Some(<<"F", "R", "A">>), latitude)>>))))

PrimaryFew == {Transport, PrimaryFound(Some(488566)), PrimaryFound(None)}

FallbackFew == {Transport}

CurrentFew == {Transport, Json(CurrentBody(Some(0), Some(215)))}

Forecast5dFew(today) ==
    {Transport,
     Json(DailyBody(DailySection(URL_FORECAST,
                                 IsoDates(today, AddDays(today, ForecastDays - 1)), "full")))}

DailyFew(url, start_date, end_date) == {Transport, WellFormed(url, start_date, end_date)}

(***************************************************************************)
(* validate_date_range, called directly                                    *)
(***************************************************************************)
CallValidate ==
    /\ Idle
    /\ \E start_s \in DateTexts, end_s \in DateTexts, max_days \in MaxDaysSet :
        /\ call' = [fn |-> "validate_date_range", start_s |-> start_s,
                    end_s |-> end_s, max_days |-> max_days]
        /\ result' = validate_date_range(start_s, end_s, max_days)
    /\ net' = <<>>
    /\ UNCHANGED <<stack, clock, db>>

(***************************************************************************)
(* geocode_one                                                             *)
(***************************************************************************)
GeoFrame(query) == [fn |-> "geocode_one", pc |-> "start", query |-> query]

CallGeocode ==
    /\ Idle
    /\ \E q \in Queries :
        /\ call' = [fn |-> "geocode_one", query |-> q]
        /\ stack' = <<GeoFrame(q)>>
    /\ result' = Pending
    /\ net' = <<>>
    /\ UNCHANGED <<clock, db>>

\* latlon = _try_parse_latlon(query); if latlon: return latlon
GeoParse ==
    /\ Running("geocode_one", "start")
    /\ LET latlon == _try_parse_latlon(Top.query)
       IN  IF ~IsNone(latlon) THEN Finish(Return(latlon))
           ELSE Goto([Top EXCEPT !.pc = "primary"])
    /\ UNCHANGED net
    /\ UNCHANGED db

\* the primary step without its short-circuit: the fallback is always asked
GeoPrimary_no_short_circuit ==
    /\ Running("geocode_one", "primary")
    /\ \E resp \in Answers(PrimaryResponses, PrimaryFew) :
        /\ net' = Append(net, Exchange(URL_GEOCODING, [name |-> Top.query], resp))
        /\ Goto([Top EXCEPT !.pc = "fallback"])
    /\ UNCHANGED db

\* result = await _geocode_open_meteo(query); if result: return result
GeoPrimary ==
    /\ Running("geocode_one", "primary")
    /\ \E resp \in Answers(PrimaryResponses, PrimaryFew) :
        LET o == _geocode_open_meteo(Top.query, resp)
        IN  /\ net' = Append(net, Exchange(URL_GEOCODING, [name |-> Top.query], resp))
            /\ IF o.kind = "raise" \/ ~IsNone(o.value) THEN Finish(o)
               ELSE Goto([Top EXCEPT !.pc = "fallback"])
    /\ UNCHANGED db

\* result = await _geocode_nominatim(query); if result: return result; return None
GeoFallback ==
    /\ Running("geocode_one", "fallback")
    /\ \E resp \in Answers(FallbackResponses, FallbackFew) :
        LET o == _geocode_nominatim(Top.query, resp)
        IN  /\ net' = Append(net, Exchange(URL_NOMINATIM, [q |-> Top.query], resp))
            /\ Finish(o)
    /\ UNCHANGED db

(***************************************************************************)
(* get_current_weather and get_forecast_5d                                 *)
(***************************************************************************)
CurrentFrame(lat, lon) == [fn |-> "get_current_weather", pc |-> "request", lat |-> lat, lon |-> lon]

CallCurrent ==
    /\ Idle
    /\ call' = [fn |-> "get_current_weather", lat |-> TestLat, lon |-> TestLon]
    /\ stack' = <<CurrentFrame(TestLat, TestLon)>>
    /\ result' = Pending
    /\ net' = <<>>
    /\ UNCHANGED <<clock, db>>

CurrentFetch ==
    /\ Running("get_current_weather", "request")
    /\ \E resp \in Answers(CurrentResponses, CurrentFew) :
        /\ net' = Append(net, Exchange(URL_FORECAST,
                    [latitude |-> Top.lat, longitude |-> Top.lon, section |-> "current"], resp))
        /\ Finish(get_current_weather(resp))
    /\ UNCHANGED db

Forecast5dFrame(lat, lon) == [fn |-> "get_forecast_5d", pc |-> "request", lat |-> lat, lon |-> lon]

CallForecast5d ==
    /\ Idle
    /\ call' = [fn |-> "get_forecast_5d", lat |-> TestLat, lon |-> TestLon]
    /\ stack' = <<Forecast5dFrame(TestLat, TestLon)>>
    /\ result' = Pending
    /\ net' = <<>>
    /\ UNCHANGED <<clock, db>>

Forecast5dFetch ==
    /\ Running("get_forecast_5d", "request")
    /\ \E resp \in Answers(Forecast5dResponses(clock), Forecast5dFew(clock)) :
        /\ net' = Append(net, Exchange(URL_FORECAST,
                    [latitude |-> Top.lat, longitude |-> Top.lon, section |-> "daily",
                     forecast_days |-> ForecastDays], resp))
        /\ Finish(get_forecast_5d(resp))
    /\ UNCHANGED db

(***************************************************************************)
(* get_daily_range                                                         *)
(***************************************************************************)
RangeFrame(lat, lon, start, end) ==
    [fn |-> "get_daily_range", pc |-> "start", lat |-> lat, lon |-> lon,
     start |-> start, end |-> end, today |-> None, past |-> None]

CallRange ==
    /\ Idle
    /\ \E dr \in ValidRanges :
        /\ call' = [fn |-> "get_daily_range", lat |-> TestLat, lon |-> TestLon,
                    start |-> dr.start, end |-> dr.end]
        /\ stack' = <<RangeFrame(TestLat, TestLon, dr.start, dr.end)>>
    /\ result' = Pending
    /\ net' = <<>>
    /\ UNCHANGED <<clock, db>>

\* the branches with a range that ends today taken as past
Classify_ending_today(start, end, today) ==
    IF ~DateGT(end, today) THEN "archive"
    ELSE IF DateGT(start, today) THEN "forecast"
    ELSE "split_archive"

\* the branch get_daily_range takes for [start, end] on the day today
Classify(start, end, today) ==
    IF DateLT(end, today) THEN "archive"
    ELSE IF DateGT(start, today) THEN "forecast"
    ELSE "split_archive"

\* the parameters of a daily request
DailyParams(lat, lon, start, end) ==
    [latitude |-> lat, longitude |-> lon, section |-> "daily",
     start_date |-> isoformat(start), end_date |-> isoformat(end)]

\* today = date.today(), and the branch
RangeStart ==
    /\ Running("get_daily_range", "start")
    /\ LET today == clock
       IN  Goto([Top EXCEPT !.today = Some(today),
                            !.pc = Classify(Top.start, Top.end, today)])
    /\ UNCHANGED net
    /\ UNCHANGED db

\* one daily request and its rows: await _daily_rows_from_open_meteo(url, params)
DailyFetch(url, params, resp) == Exchange(url, params, resp)

\* end < today: return await _daily_rows_from_open_meteo(archive, [start, end])
RangeArchive ==
    /\ Running("get_daily_range", "archive")
    /\ LET params == DailyParams(Top.lat, Top.lon, Top.start, Top.end)
       IN  \E resp \in Answers(DailyResponses(URL_ARCHIVE, params.start_date, params.end_date),
                              DailyFew(URL_ARCHIVE, params.start_date, params.end_date)) :
            /\ net' = Append(net, DailyFetch(URL_ARCHIVE, params, resp))
            /\ Finish(_daily_rows_from_open_meteo(resp))
    /\ UNCHANGED db

\* start > today: return await _daily_rows_from_open_meteo(forecast, [start, end])
RangeForecast ==
    /\ Running("get_daily_range", "forecast")
    /\ LET params == DailyParams(Top.lat, Top.lon, Top.start, Top.end)
       IN  \E resp \in Answers(DailyResponses(URL_FORECAST, params.start_date, params.end_date),
                              DailyFew(URL_FORECAST, params.start_date, params.end_date)) :
            /\ net' = Append(net, DailyFetch(URL_FORECAST, params, resp))
            /\ Finish(_daily_rows_from_open_meteo(resp))
    /\ UNCHANGED db

\* past = await _daily_rows_from_open_meteo(archive, [start, today])
RangeSplitArchive ==
    /\ Running("get_daily_range", "split_archive")
    /\ LET params == DailyParams(Top.lat, Top.lon, Top.start, Val(Top.today))
       IN  \E resp \in Answers(DailyResponses(URL_ARCHIVE, params.start_date, params.end_date),
                              DailyFew(URL_ARCHIVE, params.start_date, params.end_date)) :
            LET o == _daily_rows_from_open_meteo(resp)
            IN  /\ net' = Append(net, DailyFetch(URL_ARCHIVE, params, resp))
                /\ IF o.kind = "raise" THEN Finish(o)
                   ELSE Goto([Top EXCEPT !.past = Some(o.value), !.pc = "split_forecast"])
    /\ UNCHANGED db

\* the merge that gives up when either part is missing
Merge_all_or_nothing(past, future) ==
    IF IsNone(past) \/ IsNone(future) THEN None
    ELSE Some(OrEmptyList(past) \o OrEmptyList(future))

\* the merge with the forecast rows first
Merge_forecast_first(past, future) ==
    IF IsNone(past) /\ IsNone(future) THEN None
    ELSE Some(OrEmptyList(future) \o OrEmptyList(past))

\* if past is None and future is None: return None
\* return (past or []) + (future or [])
Merge(past, future) ==
    IF IsNone(past) /\ IsNone(future) THEN None
    ELSE Some(OrEmptyList(past) \o OrEmptyList(future))

\* future = await _daily_rows_from_open_meteo(forecast, [today, end]); the merge
RangeSplitForecast ==
    /\ Running("get_daily_range", "split_forecast")
    /\ LET params == DailyParams(Top.lat, Top.lon, Val(Top.today), Top.end)
       IN  \E resp \in Answers(DailyResponses(URL_FORECAST, params.start_date, params.end_date),
                              DailyFew(URL_FORECAST, params.start_date, params.end_date)) :
            LET o == _daily_rows_from_open_meteo(resp)
            IN  /\ net' = Append(net, DailyFetch(URL_FORECAST, params, resp))
                /\ IF o.kind = "raise" THEN Finish(o)
                   ELSE Finish(Return(Merge(Val(Top.past), o.value)))
    /\ UNCHANGED db

(***************************************************************************)
(* repositories/queries.py and models.py: the two tables                   *)
(***************************************************************************)
\* class SearchQuery(SQLModel, table=True)
SearchQuery(id, input_text, resolved_name, lat, lon, date_start, date_end, label) ==
    [id |-> id, input_text |-> input_text, resolved_name |-> resolved_name,
     lat |-> lat, lon |-> lon, date_start |-> date_start, date_end |-> date_end,
     label |-> label]

\* class WeatherSnapshot(SQLModel, table=True); rows are created in the order
\* of their ids, which stands for created_at
WeatherSnapshot(id, query_id, current_json, forecast_json) ==
    [id |-> id, query_id |-> query_id, current_json |-> current_json,
     forecast_json |-> forecast_json]

\* the id SQLite gives a new row of an INTEGER PRIMARY KEY table: one more
\* than the largest id in the table, 1 in an empty table
NewId(rows) ==
    IF rows = {} THEN 1
    ELSE 1 + CHOOSE m \in {r.id : r \in rows} : \A r \in rows : r.id <= m

\* json.dumps and json.loads: the text of a value, and the value of a text
json_dumps(value) == [json |-> value]

json_loads(text) == text.json

\* session.get(SearchQuery, qid)
get_query(d, qid) ==
    IF \E r \in d.queries : r.id = qid
    THEN Some(CHOOSE r \in d.queries : r.id = qid)
    ELSE None

create_query_with_snapshot(d, input_text, resolved_name, lat, lon, current, forecast, date_range) ==
    LET q == SearchQuery(NewId(d.queries), input_text, resolved_name, lat, lon,
                         IF IsNone(date_range) THEN None ELSE Some(Val(date_range)[1]),
                         IF IsNone(date_range) THEN None ELSE Some(Val(date_range)[2]),
                         None)
        snap == WeatherSnapshot(NewId(d.snapshots), q.id, json_dumps(current),
                                json_dumps(Some(OrEmptyList(forecast))))
    IN  [db |-> [queries |-> d.queries \cup {q}, snapshots |-> d.snapshots \cup {snap}],
         row |-> q]

get_latest_snapshot(d, query_id) ==
    LET mine == {sn \in d.snapshots : sn.query_id = query_id}
    IN  IF mine = {} THEN None
        ELSE Some(CHOOSE sn \in mine : \A other \in mine : other.id <= sn.id)

EmptyDict == [type |-> "dict", keys |-> {}]

\* current and forecast of a snapshot; {} and [] without one
unpack_snapshot(snapshot) ==
    <<IF IsNone(snapshot) THEN Some(EmptyDict) ELSE json_loads(Val(snapshot).current_json),
      IF IsNone(snapshot) THEN Some(<<>>) ELSE json_loads(Val(snapshot).forecast_json)>>

\* the handler passes every argument but label as a value, date_range as a
\* pair whose members may be None
update_query_core(d, query_id, input_text, resolved_name, lat, lon, date_range, label) ==
    LET found == get_query(d, query_id)
    IN  IF IsNone(found) THEN [db |-> d, row |-> None]
        ELSE LET old == Val(found)
                 row == SearchQuery(old.id, input_text, resolved_name, lat, lon,
                                    date_range[1], date_range[2],
                                    IF IsNone(label) THEN old.label ELSE label)
             IN  [db |-> [d EXCEPT !.queries = (@ \ {old}) \cup {row}], row |-> Some(row)]

\* the row is inserted whether or not the query exists: SQLite enforces no
\* foreign key unless the connection turns the check on, and db.py does not
append_snapshot(d, query_id, current, forecast) ==
    [d EXCEPT !.snapshots =
        @ \cup {WeatherSnapshot(NewId(d.snapshots), query_id, json_dumps(current),
                                json_dumps(forecast))}]

\* session.delete(row): the relationship's cascade deletes the row's snapshots
delete_query_cascade(d, query_id) ==
    IF IsNone(get_query(d, query_id)) THEN [db |-> d, ok |-> FALSE]
    ELSE [db |-> [queries |-> {r \in d.queries : r.id # query_id},
                  snapshots |-> {sn \in d.snapshots : sn.query_id # query_id}],
          ok |-> TRUE]

(***************************************************************************)
(* main.py: the request handlers                                           *)
(***************************************************************************)
\* how many queries and how many snapshots the tables hold at most
MaxRows == 1

MaxSnaps == 2

\* the q and input_text form fields: a coordinate pair and a place name
HandlerQueries ==
    {<<"4", "0", ".", "7", "1", "2", "8", ",", " ", "-", "7", "4", ".", "0", "0", "6", "0">>,
     <<"P", "a", "r", "i", "s">>}

\* the start and end form fields: yesterday, tomorrow, and as a start the
\* day that with yesterday spans exactly DefaultMaxDays
HandlerStarts ==
    {None, Some(<<"a", "b", "c">>)}
        \cup {Some(isoformat(AddDays(BaseDate, k))) : k \in {0 - DefaultMaxDays, -1, 1}}

HandlerEnds == {None} \cup {Some(isoformat(AddDays(BaseDate, k))) : k \in {-1, 1}}

\* a template or redirect response
Response(status_code, body) == [status_code |-> status_code, body |-> body]

\* the running coroutine awaits another: the callee runs next, and its value
\* arrives in the awaiting frame's ret
Await(callee, frame) ==
    /\ stack' = <<callee, frame>> \o Tail(stack)
    /\ UNCHANGED <<call, result, clock>>

\* float(x) of a JSON number or null
ToFloat(x) == IF IsNone(x) THEN Raise("TypeError", "float") ELSE Return(x)

DefaultInputText ==
    <<"d", "i", "r", "e", "c", "t", "-", "l", "a", "t", "l", "o", "n", "/",
      "g", "e", "o", "l", "o", "c", "a", "t", "i", "o", "n">>

SearchFrame(q, start, end) ==
    [fn |-> "search", pc |-> "start", q |-> q, start |-> start, end |-> end,
     dr |-> None, resolved |-> None, lat |-> None, lon |-> None,
     range_rows |-> None, current |-> None, ret |-> None]

CallSearch ==
    /\ Idle
    /\ Cardinality(db.queries) < MaxRows
    /\ Cardinality(db.snapshots) < MaxSnaps
    /\ \E q \in HandlerQueries, start \in HandlerStarts, end \in HandlerEnds :
        /\ call' = [fn |-> "search", q |-> q, start |-> start, end |-> end]
        /\ stack' = <<SearchFrame(q, start, end)>>
    /\ result' = Pending
    /\ net' = <<>>
    /\ UNCHANGED <<clock, db>>

\* dr = validate_date_range(start, end); resolved = await geocode_one(q)
SearchStart ==
    /\ Running("search", "start")
    /\ LET o == validate_date_range(Top.start, Top.end, DefaultMaxDays)
       IN  IF o.kind = "raise" THEN Finish(Return(Response(400, o.msg)))
           ELSE Await(GeoFrame(Top.q), [Top EXCEPT !.dr = o.value, !.pc = "geocoded"])
    /\ UNCHANGED <<net, db>>

\* if resolved is None: 400; lat, lon; the range fetch or the current fetch
SearchGeocoded ==
    /\ Running("search", "geocoded")
    /\ LET resolved == Top.ret
       IN  IF IsNone(resolved)
           THEN Finish(Return(Response(400, "Could not resolve that location. Try a city, ZIP, or 'lat,lon'.")))
           ELSE LET lat == ToFloat(Val(resolved).lat)
                    lon == ToFloat(Val(resolved).lon)
                IN  IF lat.kind = "raise" THEN Finish(lat)
                    ELSE IF lon.kind = "raise" THEN Finish(lon)
                    ELSE LET me == [Top EXCEPT !.resolved = resolved, !.lat = lat.value,
                                               !.lon = lon.value]
                         IN  IF ~IsNone(Top.dr)
                             THEN Await(RangeFrame(lat.value, lon.value, Val(Top.dr).start,
                                                   Val(Top.dr).end),
                                        [me EXCEPT !.pc = "ranged"])
                             ELSE Await(CurrentFrame(lat.value, lon.value),
                                        [me EXCEPT !.pc = "current"])
    /\ UNCHANGED <<net, db>>

\* if range_rows is None: 502; current = await get_current_weather(lat, lon)
SearchRanged ==
    /\ Running("search", "ranged")
    /\ IF IsNone(Top.ret)
       THEN Finish(Return(Response(502, "Could not fetch date-range data.")))
       ELSE Await(CurrentFrame(Top.lat, Top.lon),
                  [Top EXCEPT !.range_rows = Top.ret, !.pc = "current"])
    /\ UNCHANGED <<net, db>>

\* step 4 and 5 of search: the row and its snapshot, and the redirect
SearchPersist(me, current, forecast) ==
    LET made == create_query_with_snapshot(db,
                    IF me.q = <<>> THEN DefaultInputText ELSE me.q,
                    Val(me.resolved).name, me.lat, me.lon, current, forecast,
                    IF IsNone(me.dr) THEN None
                    ELSE Some(<<Val(me.dr).start, Val(me.dr).end>>))
    IN  /\ db' = made.db
        /\ Finish(Return(Response(303, [id |-> made.row.id])))

\* search storing whatever the current fetch gave
SearchCurrent_unchecked ==
    /\ Running("search", "current")
    /\ IF ~IsNone(Top.dr) THEN SearchPersist(Top, Top.ret, Top.range_rows)
       ELSE Await(Forecast5dFrame(Top.lat, Top.lon),
                  [Top EXCEPT !.current = Top.ret, !.pc = "forecast"]) /\ UNCHANGED db
    /\ UNCHANGED net

\* if current is None: 502; with a range the rows are stored, without one
\* forecast_for_storage = await get_forecast_5d(lat, lon) or []
SearchCurrent ==
    /\ Running("search", "current")
    /\ IF IsNone(Top.ret)
       THEN Finish(Return(Response(502, "Weather lookup failed. Please try again."))) /\ UNCHANGED db
       ELSE IF ~IsNone(Top.dr) THEN SearchPersist(Top, Top.ret, Top.range_rows)
       ELSE Await(Forecast5dFrame(Top.lat, Top.lon),
                  [Top EXCEPT !.current = Top.ret, !.pc = "forecast"]) /\ UNCHANGED db
    /\ UNCHANGED net

SearchForecast ==
    /\ Running("search", "forecast")
    /\ SearchPersist(Top, Top.current, Some(OrEmptyList(Top.ret)))
    /\ UNCHANGED net

\* the ids a request names: the first row and one that never exists
HandlerIds == {1, MaxRows + 1}

ResultFrame(id, q, name, lat, lon, start, end) ==
    [fn |-> "result", pc |-> "start", id |-> id, q |-> q, name |-> name,
     lat |-> lat, lon |-> lon, start |-> start, end |-> end,
     dr |-> None, range_rows |-> None, current |-> None, ret |-> None]

\* by id, or with the parameters of a direct link
CallResult ==
    /\ Idle
    /\ \/ \E id \in HandlerIds :
            /\ call' = [fn |-> "result", id |-> Some(id)]
            /\ stack' = <<ResultFrame(Some(id), <<>>, None, None, None, None, None)>>
       \/ \E name \in {None, Some(<<"P", "a", "r", "i", "s">>)}, lat \in {None, TestLat},
             start \in HandlerStarts \cup {Some(<<>>)}, end \in HandlerEnds :
            /\ call' = [fn |-> "result", id |-> None, name |-> name, lat |-> lat,
                        lon |-> TestLon, start |-> start, end |-> end]
            /\ stack' = <<ResultFrame(None, <<>>, name, lat, TestLon, start, end)>>
    /\ result' = Pending
    /\ net' = <<>>
    /\ UNCHANGED <<clock, db>>

\* the context the result page is rendered from
ResultCtx(query, resolved, current, forecast, range_rows, date_range) ==
    [query |-> query, resolved |-> resolved, current |-> current,
     forecast |-> forecast, range_rows |-> range_rows, date_range |-> date_range]

\* if id is not None: the stored row and its latest snapshot
ResultById(id) ==
    LET row == get_query(db, id)
    IN  IF IsNone(row) THEN Response(404, "Record not found.")
        ELSE LET r == Val(row)
                 snap == unpack_snapshot(get_latest_snapshot(db, id))
                 ranged == ~IsNone(r.date_start) \/ ~IsNone(r.date_end)
                 range_rows == IF ranged THEN snap[2] ELSE None
                 shown == ~IsNone(range_rows) /\ Val(range_rows) # <<>>
             IN  Response(200, ResultCtx(r.input_text,
                        [name |-> r.resolved_name, lat |-> r.lat, lon |-> r.lon],
                        snap[1], IF shown THEN None ELSE snap[2], range_rows,
                        IF ~IsNone(r.date_start) /\ ~IsNone(r.date_end)
                        THEN Some(DateRange(Val(r.date_start), Val(r.date_end)))
                        ELSE None))

\* the read by id; else 400 without lat, lon or name; the range is validated
\* if start or end is given; then the first fetch
ResultStart ==
    /\ Running("result", "start")
    /\ IF ~IsNone(Top.id) THEN Finish(Return(ResultById(Val(Top.id))))
       ELSE IF IsNone(Top.lat) \/ IsNone(Top.lon) \/ IsNone(Top.name)
       THEN Finish(Return(Response(400, "No id provided.")))
       ELSE LET o == IF ~Falsy(Top.start) \/ ~Falsy(Top.end)
                     THEN validate_date_range(Top.start, Top.end, DefaultMaxDays)
                     ELSE Return(None)
            IN  IF o.kind = "raise" THEN Finish(Return(Response(400, o.msg)))
                ELSE IF ~IsNone(o.value)
                THEN Await(RangeFrame(Top.lat, Top.lon, Val(o.value).start, Val(o.value).end),
                           [Top EXCEPT !.dr = o.value, !.pc = "ranged"])
                ELSE Await(CurrentFrame(Top.lat, Top.lon), [Top EXCEPT !.pc = "current"])
    /\ UNCHANGED <<net, db>>

\* current = await get_current_weather(lat, lon), whatever the range fetch gave
ResultRanged ==
    /\ Running("result", "ranged")
    /\ Await(CurrentFrame(Top.lat, Top.lon),
             [Top EXCEPT !.range_rows = Top.ret, !.pc = "current"])
    /\ UNCHANGED <<net, db>>

ResultResolved(me) == [name |-> me.name, lat |-> me.lat, lon |-> me.lon]

\* with a range the page is rendered; without one the forecast is fetched
ResultCurrent ==
    /\ Running("result", "current")
    /\ IF ~IsNone(Top.dr)
       THEN Finish(Return(Response(200, ResultCtx(Top.q, ResultResolved(Top), Top.ret,
                                                  None, Top.range_rows, Top.dr))))
       ELSE Await(Forecast5dFrame(Top.lat, Top.lon),
                  [Top EXCEPT !.current = Top.ret, !.pc = "forecast"])
    /\ UNCHANGED <<net, db>>

ResultForecast ==
    /\ Running("result", "forecast")
    /\ Finish(Return(Response(200, ResultCtx(Top.q, ResultResolved(Top), Top.current,
                                             Top.ret, None, None))))
    /\ UNCHANGED <<net, db>>

UpdateFrame(id, input_text, label, start, end) ==
    [fn |-> "update", pc |-> "start", id |-> id, input_text |-> input_text,
     label |-> label, start |-> start, end |-> end,
     dr |-> None, resolved |-> None, lat |-> None, lon |-> None,
     range_rows |-> None, current |-> None, forecast |-> <<>>, ret |-> None]

CallUpdate ==
    /\ Idle
    /\ Cardinality(db.snapshots) < MaxSnaps
    /\ \E id \in HandlerIds, input_text \in HandlerQueries,
          label \in {None, Some(<<"h", "o", "m", "e">>)},
          start \in HandlerStarts, end \in HandlerEnds :
        /\ call' = [fn |-> "update", id |-> id, input_text |-> input_text,
                    label |-> label, start |-> start, end |-> end]
        /\ stack' = <<UpdateFrame(id, input_text, label, start, end)>>
    /\ result' = Pending
    /\ net' = <<>>
    /\ UNCHANGED <<clock, db>>

\* the edit page, shown again with the stored row and an error
EditPage(status_code, id, error) ==
    Response(status_code, [row |-> get_query(db, id), error |-> error])

\* dr = validate_date_range(start, end); resolved = await geocode_one(input_text)
UpdateStart ==
    /\ Running("update", "start")
    /\ LET o == validate_date_range(Top.start, Top.end, DefaultMaxDays)
       IN  IF o.kind = "raise" THEN Finish(Return(EditPage(400, Top.id, o.msg)))
           ELSE Await(GeoFrame(Top.input_text), [Top EXCEPT !.dr = o.value, !.pc = "geocoded"])
    /\ UNCHANGED <<net, db>>

UpdateGeocoded ==
    /\ Running("update", "geocoded")
    /\ LET resolved == Top.ret
       IN  IF IsNone(resolved)
           THEN Finish(Return(EditPage(400, Top.id, "Could not resolve that location.")))
           ELSE LET lat == ToFloat(Val(resolved).lat)
                    lon == ToFloat(Val(resolved).lon)
                IN  IF lat.kind = "raise" THEN Finish(lat)
                    ELSE IF lon.kind = "raise" THEN Finish(lon)
                    ELSE LET me == [Top EXCEPT !.resolved = resolved, !.lat = lat.value,
                                               !.lon = lon.value]
                         IN  IF ~IsNone(Top.dr)
                             THEN Await(RangeFrame(lat.value, lon.value, Val(Top.dr).start,
                                                   Val(Top.dr).end),
                                        [me EXCEPT !.pc = "ranged"])
                             ELSE Await(CurrentFrame(lat.value, lon.value),
                                        [me EXCEPT !.pc = "current"])
    /\ UNCHANGED <<net, db>>

\* if range_rows is None: 502; current = await get_current_weather(lat, lon)
UpdateRanged ==
    /\ Running("update", "ranged")
    /\ IF IsNone(Top.ret)
       THEN Finish(Return(EditPage(502, Top.id, "Could not fetch date-range data.")))
       ELSE Await(CurrentFrame(Top.lat, Top.lon),
                  [Top EXCEPT !.range_rows = Top.ret, !.pc = "current"])
    /\ UNCHANGED <<net, db>>

\* updated = update_query_core(...); if not updated: 404. The snapshot is
\* appended by a commit of its own
UpdateCore(me, current, forecast) ==
    LET upd == update_query_core(db, me.id, me.input_text, Val(me.resolved).name,
                                 me.lat, me.lon,
                                 IF IsNone(me.dr) THEN <<None, None>>
                                 ELSE <<Some(Val(me.dr).start), Some(Val(me.dr).end)>>,
                                 me.label)
    IN  IF IsNone(upd.row)
        THEN Finish(Return(Response(404, "Record not found."))) /\ UNCHANGED db
        ELSE /\ db' = upd.db
             /\ Goto([me EXCEPT !.current = current, !.forecast = forecast, !.pc = "append"])

\* with a range current is stored as it came; without one, if current is
\* None: 502, and forecast_for_storage = await get_forecast_5d(lat, lon) or []
UpdateCurrent ==
    /\ Running("update", "current")
    /\ IF ~IsNone(Top.dr) THEN UpdateCore(Top, Top.ret, Val(Top.range_rows))
       ELSE IF IsNone(Top.ret)
       THEN Finish(Return(EditPage(502, Top.id, "Weather lookup failed."))) /\ UNCHANGED db
       ELSE Await(Forecast5dFrame(Top.lat, Top.lon),
                  [Top EXCEPT !.current = Top.ret, !.pc = "forecast"]) /\ UNCHANGED db
    /\ UNCHANGED net

UpdateForecast ==
    /\ Running("update", "forecast")
    /\ UpdateCore(Top, Top.current, OrEmptyList(Top.ret))
    /\ UNCHANGED net

\* append_snapshot(session, query_id=id, ...), and the redirect
UpdateAppend ==
    /\ Running("update", "append")
    /\ db' = append_snapshot(db, Top.id, Top.current, Some(Top.forecast))
    /\ Finish(Return(Response(303, [id |-> Top.id])))
    /\ UNCHANGED net

\* delete is a plain function: it runs on a worker thread, alone or while a
\* coroutine of another request is between two of its steps
Delete ==
    /\ \E id \in HandlerIds :
        LET del == delete_query_cascade(db, id)
            response == IF del.ok THEN Response(303, "/history")
                        ELSE Response(404, "Record not found.")
        IN  /\ db' = del.db
            /\ IF Idle
               THEN call' = [fn |-> "delete", id |-> id] /\ result' = Return(response)
               ELSE stack # <<>> /\ call.fn \in HandlerNames /\ UNCHANGED <<call, result>>
    /\ UNCHANGED <<stack, net, clock>>

\* the outcome goes to whoever made the outermost call; the next call starts
\* afresh
Deliver ==
    /\ Ended
    /\ call' = NoCall
    /\ result' = Pending
    /\ net' = <<>>
    /\ UNCHANGED <<stack, clock, db>>

\* the services, step by step, whoever called them
Service ==
    \/ GeoParse
    \/ GeoPrimary
    \/ GeoFallback
    \/ CurrentFetch
    \/ Forecast5dFetch
    \/ RangeStart
    \/ RangeArchive
    \/ RangeForecast
    \/ RangeSplitArchive
    \/ RangeSplitForecast

NextApp ==
    \/ Deliver
    \/ CallValidate
    \/ Service
    \/ CallSearch
    \/ SearchStart
    \/ SearchGeocoded
    \/ SearchRanged
    \/ SearchCurrent
    \/ SearchForecast
    \/ CallResult
    \/ ResultStart
    \/ ResultRanged
    \/ ResultCurrent
    \/ ResultForecast
    \/ CallUpdate
    \/ UpdateStart
    \/ UpdateGeocoded
    \/ UpdateRanged
    \/ UpdateCurrent
    \/ UpdateForecast
    \/ UpdateAppend
    \/ Delete

InitApp ==
    /\ stack = <<>>
    /\ call = NoCall
    /\ result = Pending
    /\ net = <<>>
    /\ clock = BaseDate
    /\ db = [queries |-> {}, snapshots |-> {}]

SpecApp == InitApp /\ [][NextApp]_vars

(***************************************************************************)
(* The two daily mappings, given the same upstream answer                  *)
(***************************************************************************)
\* a value array of k days as long as the dates ("full"), one short
\* ("short"), or absent ("none")
MapColumn(field, url, k, length) ==
    IF length = "none" THEN None
    ELSE Some(Column(field, url, IF length = "short" /\ k > 0 THEN k - 1 ELSE k))

MapFields == {"temperature_2m_max", "temperature_2m_min", "precipitation_sum", "weather_code"}

\* the bodies with a daily section of 0 to ForecastDays + 1 dates from first on
MapBodies(first) ==
    {DailyBody([type |-> "dict",
                time |-> IF k = 0 THEN None ELSE Some(IsoDates(first, AddDays(first, k - 1))),
                temperature_2m_max |-> MapColumn("temperature_2m_max", url, k, len.temperature_2m_max),
                temperature_2m_min |-> MapColumn("temperature_2m_min", url, k, len.temperature_2m_min),
                precipitation_sum |-> MapColumn("precipitation_sum", url, k, len.precipitation_sum),
                weather_code |-> MapColumn("weather_code", url, k, len.weather_code)]) :
        k \in 0..(ForecastDays + 1), url \in {URL_ARCHIVE, URL_FORECAST},
        len \in [MapFields -> {"full", "short", "none"}]}

MapResponses(first) ==
    {Transport, BadStatus, BadJson, Json(JList(<<>>)), Json(EmptyBody)}
        \cup {Json(b) : b \in MapBodies(first)}

\* get_forecast_5d and _daily_rows_from_open_meteo map the same answer
MapDaily ==
    /\ Idle
    /\ \E resp \in MapResponses(clock) :
        /\ call' = [fn |-> "daily_mappings", resp |-> resp]
        /\ result' = Return([forecast_5d |-> get_forecast_5d(resp),
                             daily_rows |-> _daily_rows_from_open_meteo(resp)])
    /\ net' = <<>>
    /\ UNCHANGED <<stack, clock, db>>

NextMap ==
    \/ MapDaily
    \/ Deliver

SpecMap == Init /\ [][NextMap]_vars

Next ==
    \/ Deliver
    \/ CallValidate
    \/ CallGeocode
    \/ GeoParse
    \/ GeoPrimary
    \/ GeoFallback
    \/ CallCurrent
    \/ CurrentFetch
    \/ CallForecast5d
    \/ Forecast5dFetch
    \/ CallRange
    \/ RangeStart
    \/ RangeArchive
    \/ RangeForecast
    \/ RangeSplitArchive
    \/ RangeSplitForecast

Spec == Init /\ [][Next]_vars

(***************************************************************************)
(* The claims                                                              *)
(***************************************************************************)
\* the outermost call was of fn, has ended, and returned (did not raise)
Returned(fn) == Ended /\ call.fn = fn /\ result.kind = "return"

\* the date a request parameter names
ParamDate(text) == Val(Strptime(text))

\* the exchanges of the call with one endpoint, in order
ExchangesWith(url) == SelectSeq(net, LAMBDA e : e.url = url)

\* a sub-fetch failed: it returned None
SubFetchFailed(e) == e.resp.kind \in {"transport", "status", "badjson"}

\* the requests get_daily_range is to issue for [start, end] on the day T,
\* each as <<endpoint, first date, last date>>
ExpectedRequests(start, end, T) ==
    IF DateLT(end, T) THEN << <<URL_ARCHIVE, start, end>> >>
    ELSE IF DateGT(start, T) THEN << <<URL_FORECAST, start, end>> >>
    ELSE << <<URL_ARCHIVE, start, T>>, <<URL_FORECAST, T, end>> >>

IssuedRequest(e) ==
    <<e.url, ParamDate(e.params.start_date), ParamDate(e.params.end_date)>>

\* C1: for every valid range [start, end] and every today T, get_daily_range
\* issues one archive request for [start, end] when end < T, one forecast
\* request for [start, end] when start > T, and otherwise one archive request
\* for [start, T] followed by one forecast request for [T, end]; at no moment
\* has it issued a request outside that list or one of them twice, and a call
\* that returns has issued all of them.
C1_Dispatch ==
    call.fn = "get_daily_range" =>
        LET expected == ExpectedRequests(call.start, call.end, clock)
        IN  /\ Len(net) <= Len(expected)
            /\ \A i \in 1..Len(net) : IssuedRequest(net[i]) = expected[i]
            /\ Returned("get_daily_range") => Len(net) = Len(expected)

\* a returned call on a range that has today strictly inside, with both
\* requests issued
C1_Witness ==
    /\ Returned("get_daily_range")
    /\ DateLT(call.start, clock) /\ DateLT(clock, call.end)
    /\ Len(net) = 2
    /\ net[1].url = URL_ARCHIVE /\ net[2].url = URL_FORECAST

\* C2: get_daily_range returns None iff every sub-fetch it issued failed (the
\* single one outside the straddling case, both in the straddling case), and
\* no endpoint is asked a second time, so a failed sub-fetch is never retried.
C2_NullIffAllFailed ==
    /\ Returned("get_daily_range") =>
        /\ Len(net) >= 1
        /\ IsNone(result.value) <=> \A i \in 1..Len(net) : SubFetchFailed(net[i])
    /\ call.fn = "get_daily_range" =>
        \A i, j \in 1..Len(net) : net[i].url = net[j].url => i = j

\* a straddling call whose two sub-fetches both failed, returning None
C2_Witness ==
    /\ Returned("get_daily_range")
    /\ Len(net) = 2
    /\ SubFetchFailed(net[1]) /\ SubFetchFailed(net[2])
    /\ IsNone(result.value)

\* the records a sub-fetch contributed: those of its response, none when the
\* endpoint was not asked or the sub-fetch failed
RecordsFrom(url) ==
    LET es == ExchangesWith(url)
    IN  IF es = <<>> \/ SubFetchFailed(es[1]) THEN <<>>
        ELSE Val(_daily_rows_from_open_meteo(es[1].resp).value)

\* C3: a series get_daily_range returns is the archive sub-fetch's records
\* followed by the forecast sub-fetch's records, a failed or unissued sub-fetch
\* contributing none: nothing is added, dropped, reordered or altered.
C3_ArchiveThenForecast ==
    (Returned("get_daily_range") /\ ~IsNone(result.value)) =>
        Val(result.value) = RecordsFrom(URL_ARCHIVE) \o RecordsFrom(URL_FORECAST)

\* a straddling call whose archive sub-fetch failed and whose forecast
\* sub-fetch brought records: the series is exactly the forecast records
C3_Witness ==
    /\ Returned("get_daily_range")
    /\ Len(net) = 2
    /\ SubFetchFailed(net[1])
    /\ RecordsFrom(URL_FORECAST) # <<>>
    /\ result.value = Some(RecordsFrom(URL_FORECAST))

\* every upstream answer of the call held one record per date asked, ascending
AllWellFormed ==
    \A i \in 1..Len(net) :
        net[i].resp = WellFormed(net[i].url, net[i].params.start_date,
                                 net[i].params.end_date)

\* C4: a series get_daily_range returns is in ascending date order without a
\* repeated date, when each source answered with one record per date asked.
C4_AscendingNoDuplicates ==
    (Returned("get_daily_range") /\ ~IsNone(result.value) /\ AllWellFormed) =>
        LET rows == Val(result.value)
        IN  \A i \in 1..(Len(rows) - 1) :
                DateLT(ParamDate(rows[i].date), ParamDate(rows[i + 1].date))

\* a form field is present: neither absent nor empty
Present(t) == ~IsNone(t) /\ Val(t) # <<>>

\* a present form field is a date in the form YYYY-MM-DD
Parses(t) == Present(t) /\ ~IsNone(Strptime(Val(t)))

\* the inclusive number of days of [start, end]
SpanOf(start_s, end_s) ==
    ToOrdinal(Val(Strptime(Val(end_s)))) - ToOrdinal(Val(Strptime(Val(start_s)))) + 1

\* the three kinds of validation error, as the caller tells them apart: each
\* is a ValueError, and the message names the kind
InvalidFormat(o) == o.kind = "raise" /\ o.exc = "ValueError" /\ o.msg = MsgFormat

InvalidOrder(o) == o.kind = "raise" /\ o.exc = "ValueError" /\ o.msg = MsgOrder

RangeTooLarge(o, span, max_days) ==
    /\ o.kind = "raise" /\ o.exc = "ValueError"
    /\ o.msg = MsgTooLarge(span, max_days)
    /\ o.msg \notin {MsgFormat, MsgOrder}

ReturnsRange(o) == o.kind = "return" /\ ~IsNone(o.value)

ReturnsNone(o) == o.kind = "return" /\ IsNone(o.value)

\* the frames of get_daily_range that a request handler awaits
RangeFetches ==
    {i \in 1..Len(stack) : stack[i].fn = "get_daily_range" /\ call.fn \in HandlerNames}

\* C5: validate_date_range returns None iff both inputs are empty or absent;
\* every DateRange it returns has start <= end and an inclusive span of at
\* most max_days, and a span of exactly max_days is accepted. Every range
\* get_daily_range is given by search, result or update is the DateRange that
\* validate_date_range returned for the request's start and end, with
\* start <= end and a span of at most DefaultMaxDays.
C5_RangeBounds ==
    /\ call.fn = "validate_date_range" =>
        LET s == call.start_s
            e == call.end_s
        IN  /\ ReturnsNone(result) <=> (~Present(s) /\ ~Present(e))
            /\ ReturnsRange(result) =>
                LET dr == Val(result.value)
                IN  /\ ~DateGT(dr.start, dr.end)
                    /\ ToOrdinal(dr.end) - ToOrdinal(dr.start) + 1 <= call.max_days
                    /\ dr.start = Val(Strptime(Val(s)))
                    /\ dr.end = Val(Strptime(Val(e)))
            /\ (Parses(s) /\ Parses(e) /\ SpanOf(s, e) = call.max_days)
                    => ReturnsRange(result)
    /\ \A i \in RangeFetches :
        /\ ~DateGT(stack[i].start, stack[i].end)
        /\ ToOrdinal(stack[i].end) - ToOrdinal(stack[i].start) + 1 <= DefaultMaxDays
        /\ i < Len(stack)
        /\ stack[i + 1].fn = call.fn
        /\ stack[i].start = Val(Strptime(Val(call.start)))
        /\ stack[i].end = Val(Strptime(Val(call.end)))

\* a handler fetches a range of exactly DefaultMaxDays days
C5_Witness ==
    /\ RangeFetches # {}
    /\ call.fn = "update"
    /\ Top.fn = "get_daily_range"
    /\ ToOrdinal(Top.end) - ToOrdinal(Top.start) + 1 = DefaultMaxDays

\* C6: validate_date_range fails with InvalidFormat when an input is present
\* and either is absent or no YYYY-MM-DD date; otherwise with InvalidOrder when
\* start > end; otherwise with RangeTooLarge when the inclusive span exceeds
\* max_days, the message reporting the span and the limit; the three kinds
\* differ for the caller, and every input pair has exactly one outcome.
C6_ErrorPrecedence ==
    call.fn = "validate_date_range" =>
        LET s == call.start_s
            e == call.end_s
        IN  IF ~Present(s) /\ ~Present(e) THEN ReturnsNone(result)
            ELSE IF ~Parses(s) \/ ~Parses(e) THEN InvalidFormat(result)
            ELSE IF DateGT(Val(Strptime(Val(s))), Val(Strptime(Val(e))))
                 THEN InvalidOrder(result)
            ELSE IF SpanOf(s, e) > call.max_days
                 THEN RangeTooLarge(result, SpanOf(s, e), call.max_days)
            ELSE ReturnsRange(result)

\* a span one day over the default limit was refused as too large
C6_Witness ==
    /\ call.fn = "validate_date_range"
    /\ call.max_days = DefaultMaxDays
    /\ Parses(call.start_s) /\ Parses(call.end_s)
    /\ RangeTooLarge(result, DefaultMaxDays + 1, DefaultMaxDays)

\* the query has the form "number, number" or "number number"
CoordinateLike(q) == ~IsNone(LATLON_RE_match(q))

\* a provider's exchange ended in a network or parse error
NetworkOrParseError(resp) == resp.kind \in {"transport", "status", "badjson"}

\* the primary geocoder answered with a body that lists no place
PrimaryEmpty(resp) ==
    /\ resp.kind = "json" /\ resp.data.type = "dict"
    /\ \/ "results" \notin resp.data.keys
       \/ IsNone(resp.data.results)
       \/ Val(resp.data.results) = JList(<<>>)

\* the primary geocoder answered with a first place
PrimaryHit(resp) ==
    /\ resp.kind = "json" /\ resp.data.type = "dict"
    /\ "results" \in resp.data.keys /\ ~IsNone(resp.data.results)
    /\ Val(resp.data.results).type = "list"
    /\ Val(resp.data.results).items # <<>>
    /\ Val(resp.data.results).items[1].type = "dict"

\* the fallback geocoder answered with an empty body
FallbackEmpty(resp) ==
    /\ resp.kind = "json"
    /\ \/ resp.data = JList(<<>>)
       \/ resp.data.type = "dict" /\ resp.data.keys = {}

\* the fallback geocoder answered with a first place
FallbackPlace(resp) ==
    /\ resp.kind = "json" /\ resp.data.type = "list" /\ resp.data.items # <<>>
    /\ resp.data.items[1].type = "dict"

\* ... whose coordinates are numerals
FallbackHit(resp) ==
    /\ FallbackPlace(resp)
    /\ ~IsNone(resp.data.items[1].lat) /\ ~IsNone(float(Val(resp.data.items[1].lat)))
    /\ ~IsNone(resp.data.items[1].lon) /\ ~IsNone(float(Val(resp.data.items[1].lon)))

\* ... whose coordinates do not parse: a parse error of the fallback
FallbackParseError(resp) == FallbackPlace(resp) /\ ~FallbackHit(resp)

\* C7: geocode_one runs its steps in order and stops at the first success: a
\* coordinate-like query is answered without any network call; otherwise the
\* primary geocoder is called first, the fallback only after the primary gave
\* no result, and each provider at most once.
C7_StrictOrder ==
    call.fn = "geocode_one" =>
        /\ CoordinateLike(call.query) => net = <<>>
        /\ Len(net) <= 2
        /\ Len(net) >= 1 => net[1].url = URL_GEOCODING /\ net[1].params.name = call.query
        /\ Len(net) = 2 =>
            /\ net[2].url = URL_NOMINATIM /\ net[2].params.q = call.query
            /\ NetworkOrParseError(net[1].resp) \/ PrimaryEmpty(net[1].resp)
        /\ (Ended /\ Len(net) = 1) =>
            ~(NetworkOrParseError(net[1].resp) \/ PrimaryEmpty(net[1].resp))
        /\ (Ended /\ net = <<>>) => CoordinateLike(call.query)

\* the primary geocoder gave nothing, the fallback was called and found a place
C7_Witness ==
    /\ Returned("geocode_one")
    /\ Len(net) = 2
    /\ PrimaryEmpty(net[1].resp)
    /\ FallbackHit(net[2].resp)
    /\ ~IsNone(result.value)

\* C8: a network or parse error of the primary geocoder is not raised: it
\* counts as no result and the fallback is tried; likewise for the fallback.
\* geocode_one returns None exactly when the query is not coordinate-like and
\* each provider gave an error or an empty result.
C8_ErrorsSwallowed ==
    (Ended /\ call.fn = "geocode_one") =>
        /\ (Len(net) >= 1 /\ NetworkOrParseError(net[1].resp)) => Len(net) = 2
        /\ (Len(net) >= 1 /\ NetworkOrParseError(net[Len(net)].resp)) => result.kind = "return"
        /\ (Len(net) = 2 /\ FallbackParseError(net[2].resp)) => result.kind = "return"
        /\ ReturnsNone(result) <=>
            /\ ~CoordinateLike(call.query)
            /\ Len(net) = 2
            /\ NetworkOrParseError(net[1].resp) \/ PrimaryEmpty(net[1].resp)
            /\ \/ NetworkOrParseError(net[2].resp)
               \/ FallbackEmpty(net[2].resp)
               \/ FallbackParseError(net[2].resp)

\* the primary geocoder could not be reached, the fallback answered with a
\* body that is no JSON, and the call returned None
C8_Witness ==
    /\ Returned("geocode_one")
    /\ Len(net) = 2
    /\ net[1].resp = Transport
    /\ net[2].resp = BadJson
    /\ IsNone(result.value)

\* the step that produced the result of an ended geocode_one
ProducedBy == IF net = <<>> THEN "coordinates"
              ELSE IF Len(net) = 1 THEN "primary_geocoder" ELSE "fallback_geocoder"

\* the provider a result names, if it names one
SourceProvider(r) ==
    IF "source" \notin DOMAIN r THEN "none"
    ELSE IF r.source = SourceOpenMeteo THEN "primary_geocoder"
    ELSE IF r.source = SourceNominatim THEN "fallback_geocoder"
    ELSE r.source

describe_code(code) ==
    IF IsNone(code) THEN EmDash
    ELSE IF Val(code) \in DOMAIN WEATHER_CODE_DESC THEN WEATHER_CODE_DESC[Val(code)]
    ELSE "Code " \o ToString(Val(code))

\* the records of the outcome of a fetcher: the one of get_current_weather,
\* those of a daily series
RecordsOfResult ==
    IF IsNone(result.value) THEN <<>>
    ELSE IF call.fn = "get_current_weather" THEN <<Val(result.value)>>
    ELSE Val(result.value)

\* C10: in every record get_current_weather, get_forecast_5d and
\* get_daily_range produce, weather_desc is describe_code of the record's
\* weather_code.
C10_DescFollowsCode ==
    (\/ Returned("get_current_weather")
     \/ Returned("get_forecast_5d")
     \/ Returned("get_daily_range")) =>
        \A i \in 1..Len(RecordsOfResult) :
            RecordsOfResult[i].weather_desc = describe_code(RecordsOfResult[i].weather_code)

\* the payload of an exchange is no JSON object, or its section is none
MisShaped(resp, key) ==
    /\ resp.kind = "json"
    /\ \/ resp.data.type # "dict"
       \/ /\ key \in resp.data.keys /\ ~IsNone(resp.data[key])
          /\ ~JFalsy(Val(resp.data[key])) /\ Val(resp.data[key]).type # "dict"

\* the section a fetcher reads from the body
SectionKey == IF call.fn = "get_current_weather" THEN "current" ELSE "daily"

\* C11: get_current_weather, get_forecast_5d and get_daily_range never raise:
\* a call whose exchange met a transport failure, a non-2xx status, an
\* unparseable body or a body of the wrong shape returns None, and any other
\* call returns its records.
C11_FetchersNeverRaise ==
    (Ended /\ call.fn \in {"get_current_weather", "get_forecast_5d", "get_daily_range"}) =>
        /\ result.kind = "return"
        /\ Len(net) = 1 =>
            (IsNone(result.value) <=>
                (NetworkOrParseError(net[1].resp) \/ MisShaped(net[1].resp, SectionKey)))

\* the daily section of the body the 5-day request was answered with
DailyOf(resp) == Val(resp.data.daily)

\* a value array of a daily section; [] when missing
ArrayOf(daily, key) == IF IsNone(daily[key]) THEN <<>> ELSE Val(daily[key])

\* a record's field and its converted counterpart come from the i-th value of
\* the array, and both are None when the array is too short
FieldFrom(array, i, raw, converted, unit) ==
    IF i <= Len(array)
    THEN /\ raw = array[i]
         /\ converted = (IF unit = "C" THEN _c_to_f(array[i]) ELSE _mm_to_in(array[i]))
    ELSE IsNone(raw) /\ IsNone(converted)

\* C12: get_forecast_5d returns min(5, number of upstream dates) records, at
\* most 5, in upstream order; where a value array is shorter than the date
\* array the field and its converted counterpart are None, and the call
\* returns.
C12_AtMostFiveRows ==
    (/\ Ended /\ call.fn = "get_forecast_5d"
     /\ net[1].resp.kind = "json" /\ net[1].resp.data.type = "dict"
     /\ "daily" \in net[1].resp.data.keys) =>
        LET daily == DailyOf(net[1].resp)
            times == ArrayOf(daily, "time")
            rows == Val(result.value)
        IN  /\ result.kind = "return"
            /\ ~IsNone(result.value)
            /\ Len(rows) = (IF Len(times) < 5 THEN Len(times) ELSE 5)
            /\ \A i \in 1..Len(rows) :
                /\ rows[i].date = times[i]
                /\ FieldFrom(ArrayOf(daily, "temperature_2m_max"), i,
                             rows[i].tmax_c, rows[i].tmax_f, "C")
                /\ FieldFrom(ArrayOf(daily, "temperature_2m_min"), i,
                             rows[i].tmin_c, rows[i].tmin_f, "C")
                /\ FieldFrom(ArrayOf(daily, "precipitation_sum"), i,
                             rows[i].precip_mm, rows[i].precip_in, "mm")
                /\ rows[i].weather_code =
                        (IF i <= Len(ArrayOf(daily, "weather_code"))
                         THEN ArrayOf(daily, "weather_code")[i] ELSE None)

\* six upstream dates gave five records, and the fifth has no minimum
\* temperature because upstream sent no array of minima
C12_Witness ==
    /\ Returned("get_forecast_5d")
    /\ net[1].resp.kind = "json" /\ net[1].resp.data.type = "dict"
    /\ "daily" \in net[1].resp.data.keys
    /\ Len(ArrayOf(DailyOf(net[1].resp), "time")) = 6
    /\ Len(Val(result.value)) = 5
    /\ IsNone(Val(result.value)[5].tmin_c)
    /\ IsNone(Val(result.value)[5].tmin_f)

\* the dates of the answer both mappings were given
MappedDates ==
    IF call.resp.kind = "json" /\ call.resp.data.type = "dict" /\ "daily" \in call.resp.data.keys
    THEN ArrayOf(DailyOf(call.resp), "time")
    ELSE <<>>

\* C13: given the same upstream answer with at most 5 dates, the mapping of
\* _daily_rows_from_open_meteo and the mapping of get_forecast_5d have the same
\* outcome: the same records with the same fields, None values, converted
\* values and descriptions.
C13_SameMapping ==
    (call.fn = "daily_mappings" /\ Len(MappedDates) <= 5) =>
        result.value.daily_rows = result.value.forecast_5d

\* both mappings were given five dates with a code array one short, and gave
\* five records
C13_Witness ==
    /\ call.fn = "daily_mappings"
    /\ Len(MappedDates) = 5
    /\ Len(ArrayOf(DailyOf(call.resp), "weather_code")) = 4
    /\ result.value.forecast_5d.kind = "return"
    /\ Len(Val(result.value.forecast_5d.value)) = 5
    /\ Len(Val(result.value.daily_rows.value)) = 5

\* the exchanges of the request in progress that asked for one section
SectionExchanges(section, ranged) ==
    SelectSeq(net, LAMBDA e : /\ "section" \in DOMAIN e.params
                              /\ e.params.section = section
                              /\ ("start_date" \in DOMAIN e.params) = ranged)

\* the request's dates passed validation
ValidationPassed ==
    validate_date_range(call.start, call.end, DefaultMaxDays).kind = "return"

\* the request named a range
RangeGiven == Present(call.start) \/ Present(call.end)

\* the query of the request was resolved: it is coordinate-like, or a
\* geocoder was asked and answered with a place
LocationResolved(q) ==
    \/ CoordinateLike(q)
    \/ \E i \in 1..Len(net) :
        \/ net[i].url = URL_GEOCODING /\ PrimaryHit(net[i].resp)
        \/ net[i].url = URL_NOMINATIM /\ FallbackHit(net[i].resp)

\* the current conditions were fetched
CurrentFetched ==
    LET asked == SectionExchanges("current", FALSE)
    IN  Len(asked) = 1 /\ ~SubFetchFailed(asked[1])

\* the range was fetched: a daily request with dates did not fail
RangeFetched ==
    LET asked == SectionExchanges("daily", TRUE)
    IN  \E i \in 1..Len(asked) : ~SubFetchFailed(asked[i])

\* this step adds one query and one snapshot of it, and nothing else
AddsQueryWithSnapshot ==
    \E q \in db'.queries, sn \in db'.snapshots :
        /\ q \notin db.queries /\ sn \notin db.snapshots
        /\ db'.queries = db.queries \cup {q}
        /\ db'.snapshots = db.snapshots \cup {sn}
        /\ sn.query_id = q.id

\* this step only removes rows: a delete running beside the request
OnlyRemoves == db'.queries \subseteq db.queries /\ db'.snapshots \subseteq db.snapshots

\* the request ends in this step with the given status
EndsWith(status_code) ==
    /\ stack # <<>> /\ stack' = <<>>
    /\ result'.kind = "return" /\ result'.value.status_code = status_code

\* every step of a search in progress
C14_SearchStep ==
    (call.fn = "search" /\ stack # <<>>) =>
        /\ ~ValidationPassed => net' = <<>>
        /\ db' # db =>
            \/ OnlyRemoves
            \/ /\ AddsQueryWithSnapshot
               /\ EndsWith(303)
               /\ ValidationPassed
               /\ LocationResolved(call.q)
               /\ CurrentFetched
               /\ RangeGiven => RangeFetched
        /\ EndsWith(303) => AddsQueryWithSnapshot
        /\ (EndsWith(400) \/ EndsWith(502)) => db' = db

\* C14: search stores a query with its snapshot only in the step that ends
\* it with the redirect, after the dates passed validation, the location was
\* resolved, the current conditions were fetched and, when a range was
\* given, the range was fetched; a search that ends with an error stores
\* nothing, and one whose dates fail validation issues no upstream request.
C14_PersistAfterSuccess == [][C14_SearchStep]_vars

\* a search with a range ended with the redirect and its row is stored
C14_Witness ==
    /\ Ended /\ call.fn = "search"
    /\ RangeGiven
    /\ result.kind = "return" /\ result.value.status_code = 303
    /\ \E q \in db.queries : q.id = result.value.body.id /\ ~IsNone(q.date_start)

\* C15: after any sequence and interleaving of search, update and delete
\* every stored snapshot is of a query that is stored, and every stored query
\* has a snapshot.
C15_ReferentialIntegrity ==
    /\ \A sn \in db.snapshots : \E q \in db.queries : q.id = sn.query_id
    /\ \A q \in db.queries : \E sn \in db.snapshots : sn.query_id = q.id

\* C16: every stored snapshot, written by search or by update, holds current
\* conditions that were fetched: its current is not null.
C16_SnapshotsHoldCurrent ==
    \A sn \in db.snapshots : ~IsNone(json_loads(sn.current_json))

=============================================================================
